---- MODULE Spec2Model ----
(***************************************************************************)
(* caseproxy: case-insensitive path identity (InsensitivePath), the        *)
(* Codepoint/Byte decomposer (osstr_chars), the path normaliser            *)
(* (resolve_parents) and the directory-tree resolver                       *)
(* (InsensitivePath::find_matching_files), modelled from src/src/lib.rs    *)
(* and src/src/main.rs.                                                    *)
(*                                                                         *)
(* An OS string / path is a sequence of bytes (integers 0..255).  A panic  *)
(* of the Rust code is an explicit outcome of the model ("Panic").         *)
(***************************************************************************)
EXTENDS Integers, Sequences, FiniteSets, TLC

VARIABLES
    \* osstr_chars iterator (lib.rs 276-310)
    str, index, units, dstate,
    \* InsensitivePath cmp / hash (lib.rs 101-142)
    pa, pb, pc, ord, hsh, fold, ostate,
    \* resolve_parents / handle_request (lib.rs 402-416, main.rs 186-190)
    rootPath, reqPath, fullPath1, fullPath2, nstate,
    \* find_matching_files (lib.rs 12-73)
    tree, root, target, queue, matchingFiles, prefix, remaining, headPath,
    fullPath, pending, reads, failed, result, fstate,
    \* handle_request / resolve_path (main.rs 186-252)
    delivery, response, hstate

decVars  == <<str, index, units, dstate>>
ordVars  == <<pa, pb, pc, ord, hsh, fold, ostate>>
normVars == <<rootPath, reqPath, fullPath1, fullPath2, nstate>>
findVars == <<tree, root, target, queue, matchingFiles, prefix, remaining,
              headPath, fullPath, pending, reads, failed, result, fstate>>
srvVars  == <<delivery, response, hstate>>
vars == <<decVars, ordVars, normVars, findVars, srvVars>>

(***************************************************************************)
(* Bounds of the model.                                                    *)
(***************************************************************************)
MaxStrLen == 3       \* bytes of a decomposed component string
MaxPathLen == 2      \* bytes of a compared / hashed path
MaxReqComps == 4     \* '/'-separated segments of a path handed to resolve_parents

(***************************************************************************)
(* Bytes.                                                                  *)
(***************************************************************************)
SEP == 47            \* '/'
DOT == 46            \* '.'

RECURSIVE SeqsUpTo(_, _)
SeqsUpTo(S, n) ==
    IF n = 0 THEN {<<>>}
    ELSE LET shorter == SeqsUpTo(S, n - 1)
         IN  shorter \cup {Append(s, b) : s \in {t \in shorter : Len(t) = n - 1}, b \in S}

Last(s) == s[Len(s)]
Front(s) == SubSeq(s, 1, Len(s) - 1)
IsPrefixSeq(p, s) == Len(p) <= Len(s) /\ SubSeq(s, 1, Len(p)) = p

\* headByte & mask, for the masks 0b1000_0000 .. 0b1111_0000 (the top n bits)
TopBits(b, n) ==
    LET unit == CASE n = 1 -> 128 [] n = 2 -> 64 [] n = 3 -> 32 [] OTHER -> 16
    IN  (b \div unit) * unit

(***************************************************************************)
(* std::str::from_utf8 on a byte slice: the scalar values it decodes to,   *)
(* or Utf8Error.                                                           *)
(***************************************************************************)
Utf8Error == <<-1>>
IsCont(b) == b >= 128 /\ b <= 191

RECURSIVE from_utf8(_)
from_utf8(s) ==
    IF s = <<>> THEN <<>>
    ELSE LET b1 == s[1]
             n  == Len(s)
             one(cp, k) ==
                 LET rest == from_utf8(SubSeq(s, k + 1, n))
                 IN  IF rest = Utf8Error THEN Utf8Error ELSE <<cp>> \o rest
         IN  IF b1 < 128 THEN one(b1, 1)
             ELSE IF b1 >= 194 /\ b1 <= 223 THEN
                 IF n >= 2 /\ IsCont(s[2])
                 THEN one((b1 - 192) * 64 + (s[2] - 128), 2)
                 ELSE Utf8Error
             ELSE IF b1 >= 224 /\ b1 <= 239 THEN
                 IF /\ n >= 3 /\ IsCont(s[2]) /\ IsCont(s[3])
                    /\ (b1 = 224 => s[2] >= 160)
                    /\ (b1 = 237 => s[2] <= 159)
                 THEN one((b1 - 224) * 4096 + (s[2] - 128) * 64 + (s[3] - 128), 3)
                 ELSE Utf8Error
             ELSE IF b1 >= 240 /\ b1 <= 244 THEN
                 IF /\ n >= 4 /\ IsCont(s[2]) /\ IsCont(s[3]) /\ IsCont(s[4])
                    /\ (b1 = 240 => s[2] >= 144)
                    /\ (b1 = 244 => s[2] <= 143)
                 THEN one((b1 - 240) * 262144 + (s[2] - 128) * 4096
                          + (s[3] - 128) * 64 + (s[4] - 128), 4)
                 ELSE Utf8Error
             ELSE Utf8Error

(***************************************************************************)
(* CharOrByte and osstr_chars.                                             *)
(***************************************************************************)
Char(c) == [k |-> "Char", v |-> c]
Byte(b) == [k |-> "Byte", v |-> b]
PanicUnit == [k |-> "Panic", v |-> 0]

\* lines 284-294; 0 stands for the unreachable!() arm
charLen(headByte) ==
    IF TopBits(headByte, 1) = 0 THEN 1
    ELSE IF TopBits(headByte, 2) = 192 THEN 2
    ELSE IF TopBits(headByte, 3) = 224 THEN 3
    ELSE IF TopBits(headByte, 4) = 240 THEN 4
    ELSE 0

\* One call of the from_fn closure at byte offset i (0-based) of s:
\* [unit, adv]: the unit returned and the bytes consumed; a panic
\* consumes nothing and returns PanicUnit.
osstr_chars_step(s, i) ==
    LET headByte == s[i + 1]
        cl == charLen(headByte)
    IN  IF cl = 0 THEN [unit |-> PanicUnit, adv |-> 0]
        ELSE IF i + cl > Len(s) THEN [unit |-> Byte(headByte), adv |-> 1]
        ELSE LET utf8 == from_utf8(SubSeq(s, i + 1, i + cl))
             IN  IF utf8 # Utf8Error
                 THEN [unit |-> Char(utf8[1]), adv |-> cl]
                 ELSE [unit |-> Byte(headByte), adv |-> 1]

\* The whole stream the iterator yields; a panic ends it with PanicUnit.
RECURSIVE osstr_chars_from(_, _)
osstr_chars_from(s, i) ==
    IF i >= Len(s) THEN <<>>
    ELSE LET st == osstr_chars_step(s, i)
         IN  IF st.unit = PanicUnit THEN <<PanicUnit>>
             ELSE <<st.unit>> \o osstr_chars_from(s, i + st.adv)

osstr_chars(s) == osstr_chars_from(s, 0)

(***************************************************************************)
(* char::to_lowercase / str::to_uppercase / str::to_lowercase, for the     *)
(* scalar values below U+0100 (those the byte alphabets of the model can   *)
(* decode to), and UTF-8 encoding of a scalar value.                       *)
(***************************************************************************)
to_lowercase(c) ==
    IF (c >= 65 /\ c <= 90) \/ (c >= 192 /\ c <= 222 /\ c # 215)
    THEN <<c + 32>>
    ELSE <<c>>

to_uppercase(c) ==
    IF (c >= 97 /\ c <= 122) \/ (c >= 224 /\ c <= 254 /\ c # 247) THEN <<c - 32>>
    ELSE IF c = 223 THEN <<83, 83>>
    ELSE IF c = 255 THEN <<376>>
    ELSE IF c = 181 THEN <<924>>
    ELSE <<c>>

encode_utf8(c) ==
    IF c < 128 THEN <<c>>
    ELSE <<192 + (c \div 64), 128 + (c % 64)>>

RECURSIVE FlatMap(_, _)
FlatMap(F(_), s) == IF s = <<>> THEN <<>> ELSE F(s[1]) \o FlatMap(F, Tail(s))

encode_all(cs) == FlatMap(encode_utf8, cs)
str_to_uppercase(s) == encode_all(FlatMap(to_uppercase, from_utf8(s)))
str_to_lowercase(s) == encode_all(FlatMap(to_lowercase, from_utf8(s)))

\* lines 312-319: flat_map over osstr_chars; a panic of the inner iterator
\* surfaces where the flattened stream reaches it
lowercased_unit(u) ==
    IF u.k = "Char" THEN [i \in 1..Len(to_lowercase(u.v)) |-> Char(to_lowercase(u.v)[i])]
    ELSE <<u>>

osstr_chars_lowercased(s) == FlatMap(lowercased_unit, osstr_chars(s))

(***************************************************************************)
(* compare_osstr_case_insensitive (lines 354-388).                         *)
(***************************************************************************)
IntCmp(l, r) == IF l < r THEN "Less" ELSE IF l > r THEN "Greater" ELSE "Equal"

\* the match on (l, r) of lines 365-384
unit_cmp(l, r) ==
    IF l.k = "Char" /\ r.k = "Char" THEN IntCmp(l.v, r.v)
    ELSE IF l.k = "Byte" /\ r.k = "Byte" THEN IntCmp(l.v, r.v)
    ELSE IF l.k = "Char" THEN "Less"
    ELSE "Greater"

RECURSIVE compare_units(_, _, _)
compare_units(L, R, i) ==
    \* (left.next(), right.next()): both are pulled, left first
    IF i <= Len(L) /\ L[i] = PanicUnit THEN "Panic"
    ELSE IF i <= Len(R) /\ R[i] = PanicUnit THEN "Panic"
    ELSE IF i > Len(L) /\ i > Len(R) THEN "Equal"
    ELSE IF i > Len(L) THEN "Less"
    ELSE IF i > Len(R) THEN "Greater"
    ELSE LET order == unit_cmp(L[i], R[i])
         IN  IF order # "Equal" THEN order ELSE compare_units(L, R, i + 1)

compare_osstr_case_insensitive(left, right) ==
    compare_units(osstr_chars_lowercased(left), osstr_chars_lowercased(right), 1)

(***************************************************************************)
(* std::path on Unix: components(), Component's derived Ord, Path          *)
(* equality, PathBuf::push / pop, Path::starts_with / strip_prefix.        *)
(***************************************************************************)
RootDir == [k |-> "RootDir", s |-> <<>>]
CurDir == [k |-> "CurDir", s |-> <<>>]
ParentDir == [k |-> "ParentDir", s |-> <<>>]
Normal(s) == [k |-> "Normal", s |-> s]

\* the components of the bytes from position i on, cur being the segment read so far
RECURSIVE body_components(_, _, _)
body_components(s, i, cur) ==
    LET emit == IF cur = <<>> \/ cur = <<DOT>> THEN <<>>
                ELSE IF cur = <<DOT, DOT>> THEN <<ParentDir>>
                ELSE <<Normal(cur)>>
    IN  IF i > Len(s) THEN emit
        ELSE IF s[i] = SEP THEN emit \o body_components(s, i + 1, <<>>)
        ELSE body_components(s, i + 1, Append(cur, s[i]))

has_root(s) == s # <<>> /\ s[1] = SEP
include_cur_dir(s) ==
    /\ ~has_root(s)
    /\ s # <<>> /\ s[1] = DOT
    /\ (Len(s) = 1 \/ s[2] = SEP)

components(s) ==
    (IF has_root(s) THEN <<RootDir>> ELSE <<>>)
    \o (IF include_cur_dir(s) THEN <<CurDir>> ELSE <<>>)
    \o body_components(s, 1, <<>>)

\* Component::as_os_str
as_os_str(c) ==
    CASE c.k = "RootDir" -> <<SEP>>
      [] c.k = "CurDir" -> <<DOT>>
      [] c.k = "ParentDir" -> <<DOT, DOT>>
      [] OTHER -> c.s

\* Path == Path compares the components
path_eq(a, b) == components(a) = components(b)

\* PathBuf::push of a path given as bytes
push(buf, p) ==
    IF has_root(p) THEN p
    ELSE IF buf # <<>> /\ Last(buf) # SEP THEN buf \o <<SEP>> \o p
    ELSE buf \o p

\* Path::parent: the shortest prefix holding all components but the last,
\* when the last one is Normal, CurDir or ParentDir
has_parent(buf) ==
    /\ components(buf) # <<>>
    /\ Last(components(buf)).k # "RootDir"

parent(buf) ==
    LET want == Front(components(buf))
        n == CHOOSE n \in 0..Len(buf) :
                /\ components(SubSeq(buf, 1, n)) = want
                /\ \A m \in 0..(n - 1) : components(SubSeq(buf, 1, m)) # want
    IN  SubSeq(buf, 1, n)

\* PathBuf::pop
pop(buf) == IF has_parent(buf) THEN parent(buf) ELSE buf

\* PathBuf::from_iter over components
RECURSIVE collect(_)
collect(cs) == IF cs = <<>> THEN <<>> ELSE push(collect(Front(cs)), as_os_str(Last(cs)))

\* Path::starts_with: component-wise, case-sensitive
starts_with(p, base) == IsPrefixSeq(components(base), components(p))

(***************************************************************************)
(* InsensitivePath: Ord::cmp (lines 101-131) and Hash::hash (133-142).     *)
(***************************************************************************)
Discriminant(c) ==
    CASE c.k = "RootDir" -> 1 [] c.k = "CurDir" -> 2 [] c.k = "ParentDir" -> 3 [] OTHER -> 4

RECURSIVE bytes_cmp(_, _)
bytes_cmp(l, r) ==
    IF l = <<>> /\ r = <<>> THEN "Equal"
    ELSE IF l = <<>> THEN "Less"
    ELSE IF r = <<>> THEN "Greater"
    ELSE IF l[1] # r[1] THEN IntCmp(l[1], r[1])
    ELSE bytes_cmp(Tail(l), Tail(r))

\* the derived Ord of std::path::Component (l.cmp(&r), line 121)
component_cmp(l, r) ==
    IF Discriminant(l) # Discriminant(r) THEN IntCmp(Discriminant(l), Discriminant(r))
    ELSE bytes_cmp(l.s, r.s)

RECURSIVE cmp_components(_, _)
cmp_components(ls, rs) ==
    IF ls = <<>> /\ rs = <<>> THEN "Equal"
    ELSE IF ls = <<>> THEN "Less"
    ELSE IF rs = <<>> THEN "Greater"
    ELSE LET l == ls[1]
             r == rs[1]
             order == IF l.k = "Normal" /\ r.k = "Normal"
                      THEN compare_osstr_case_insensitive(l.s, r.s)
                      ELSE component_cmp(l, r)
         IN  IF order # "Equal" THEN order
             ELSE cmp_components(Tail(ls), Tail(rs))

cmp(self, other) == cmp_components(components(self), components(other))

\* write_u32 / write_u8: the bytes handed to the Hasher, in order.  The
\* hash value is a function of this byte stream (DefaultHasher::finish);
\* the model takes the stream itself as the hash.
write_unit(u) ==
    IF u.k = "Char"
    THEN <<u.v % 256, (u.v \div 256) % 256, (u.v \div 65536) % 256, u.v \div 16777216>>
    ELSE <<u.v>>

hash(self) ==
    LET stream == osstr_chars_lowercased(self)
    IN  IF stream # <<>> /\ Last(stream) = PanicUnit THEN "Panic"
        ELSE FlatMap(write_unit, stream)


(***************************************************************************)
(* The iterator as a machine: one action per next() call.                  *)
(***************************************************************************)
DecodeBytes == {65, 97, 195, 137, 169, 226, 255}
DecodeStrings == SeqsUpTo(DecodeBytes, MaxStrLen)

DecIdle ==
    /\ str = <<>> /\ index = 0 /\ units = <<>> /\ dstate = "idle"

DecInit ==
    /\ str \in DecodeStrings
    /\ index = 0
    /\ units = <<>>
    /\ dstate = "iterating"

\* lines 279-281: the iterator is exhausted
osstr_chars_none ==
    /\ dstate = "iterating"
    /\ index >= Len(str)
    /\ dstate' = "exhausted"
    /\ UNCHANGED <<str, index, units>>
    /\ UNCHANGED <<ordVars, normVars, findVars, srvVars>>

\* lines 283-308: one unit, or the unreachable!() panic
osstr_chars_next ==
    /\ dstate = "iterating"
    /\ index < Len(str)
    /\ LET st == osstr_chars_step(str, index)
       IN  IF st.unit = PanicUnit
           THEN /\ dstate' = "panicked"
                /\ UNCHANGED <<index, units>>
           ELSE /\ index' = index + st.adv
                /\ units' = Append(units, [unit |-> st.unit, at |-> index, len |-> st.adv])
                /\ dstate' = "iterating"
    /\ UNCHANGED str
    /\ UNCHANGED <<ordVars, normVars, findVars, srvVars>>

(***************************************************************************)
(* InsensitivePath comparison and hashing as calls on three paths.         *)
(***************************************************************************)
PathBytes == {SEP, DOT, 65, 97, 195, 159}
Paths == SeqsUpTo(PathBytes, MaxPathLen)

NoOrd == [ab |-> "-", ba |-> "-", bc |-> "-", ac |-> "-"]
NoHash == [a |-> "-", b |-> "-"]
NoFold == [up |-> "-", low |-> "-"]

OrdIdle ==
    /\ pa = <<>> /\ pb = <<>> /\ pc = <<>>
    /\ ord = NoOrd /\ hsh = NoHash /\ fold = NoFold /\ ostate = "idle"

OrdInit ==
    /\ pa \in Paths /\ pb \in Paths /\ pc \in Paths
    /\ ord = NoOrd /\ hsh = NoHash /\ fold = NoFold /\ ostate = "start"

\* a.cmp(&b), b.cmp(&a), b.cmp(&c), a.cmp(&c)
cmp_call ==
    /\ ostate = "start"
    /\ ord' = [ab |-> cmp(pa, pb), ba |-> cmp(pb, pa),
               bc |-> cmp(pb, pc), ac |-> cmp(pa, pc)]
    /\ ostate' = "compared"
    /\ UNCHANGED <<pa, pb, pc, hsh, fold>>
    /\ UNCHANGED <<decVars, normVars, findVars, srvVars>>

\* a.hash(&mut hasher), b.hash(&mut hasher) with fresh hashers (lines 150-159)
hash_call ==
    /\ ostate = "compared"
    /\ hsh' = [a |-> hash(pa), b |-> hash(pb)]
    /\ ostate' = "hashed"
    /\ UNCHANGED <<pa, pb, pc, ord, fold>>
    /\ UNCHANGED <<decVars, normVars, findVars, srvVars>>

\* a string of valid text compared with its upper- and lower-cased forms
\* (the pairs of test_osstr_case_insensitive, lines 390-400)
is_text(s) == from_utf8(s) # Utf8Error

case_variants_call ==
    /\ ostate = "hashed"
    /\ is_text(pa)
    /\ fold' = [up  |-> compare_osstr_case_insensitive(pa, str_to_uppercase(pa)),
                low |-> compare_osstr_case_insensitive(pa, str_to_lowercase(pa))]
    /\ ostate' = "folded"
    /\ UNCHANGED <<pa, pb, pc, ord, hsh>>
    /\ UNCHANGED <<decVars, normVars, findVars, srvVars>>

(***************************************************************************)
(* resolve_parents (lib.rs 402-416) and the target handle_request builds   *)
(* (main.rs 189-190).                                                      *)
(***************************************************************************)
\* mutant: the else of line 411 is lost, so the component is pushed after a pop too
resolve_parents_step_no_else(res, component) ==
    IF /\ component = ParentDir
       /\ ~path_eq(res, <<SEP>>)
       /\ ~path_eq(res, <<DOT>>)
    THEN push(pop(res), as_os_str(component))
    ELSE push(res, as_os_str(component))

\* mutant: the guard of line 408 is lost, so a bare "." is popped
resolve_parents_step_pops_cur_dir(res, component) ==
    IF /\ component = ParentDir
       /\ ~path_eq(res, <<SEP>>)
    THEN pop(res)
    ELSE push(res, as_os_str(component))

\* one iteration of the loop of lines 404-414
resolve_parents_step(res, component) ==
    IF /\ component = ParentDir
       /\ ~path_eq(res, <<SEP>>)
       /\ ~path_eq(res, <<DOT>>)
    THEN pop(res)
    ELSE push(res, as_os_str(component))

RECURSIVE resolve_parents_loop(_, _)
resolve_parents_loop(res, cs) ==
    IF cs = <<>> THEN res
    ELSE resolve_parents_loop(resolve_parents_step(res, cs[1]), Tail(cs))

resolve_parents(path) == resolve_parents_loop(<<>>, components(path))

\* Path::join
join(base, p) == push(base, p)

\* The paths normalised: an optional leading '/', then up to MaxReqComps
\* segments "a", "b", "..", "." or "" (a doubled or trailing separator).
ReqSegments == {<<97>>, <<98>>, <<DOT, DOT>>, <<DOT>>, <<>>}

RECURSIVE join_segments(_)
join_segments(segs) ==
    IF segs = <<>> THEN <<>>
    ELSE IF Len(segs) = 1 THEN segs[1]
    ELSE segs[1] \o <<SEP>> \o join_segments(Tail(segs))

ReqPaths ==
    {lead \o join_segments(segs) :
        lead \in {<<>>, <<SEP>>}, segs \in SeqsUpTo(ReqSegments, MaxReqComps)}

\* --root-path values: "/", ".", "/r", "r"
RootPaths == {<<SEP>>, <<DOT>>, <<SEP, 114>>, <<114>>}

NormIdle ==
    /\ rootPath = <<>> /\ reqPath = <<>>
    /\ fullPath1 = <<>> /\ fullPath2 = <<>> /\ nstate = "idle"

NormInit ==
    /\ rootPath \in RootPaths
    /\ reqPath \in ReqPaths
    /\ fullPath1 = <<>> /\ fullPath2 = <<>>
    /\ nstate = "start"

\* resolve_parents(path) called on a path directly (test_resolve_parents)
resolve_parents_call ==
    /\ nstate = "start"
    /\ fullPath1' = resolve_parents(reqPath)
    /\ nstate' = "resolved"
    /\ UNCHANGED <<rootPath, reqPath, fullPath2>>
    /\ UNCHANGED <<decVars, ordVars, findVars, srvVars>>

\* main.rs 189-190: reqPath is what strip_prefix(urlPrefix) leaves, a
\* relative path; fullPath = resolve_parents(&config.rootPath.join(reqPath))
handle_request_target ==
    /\ nstate = "start"
    /\ ~has_root(reqPath)
    /\ fullPath1' = resolve_parents(join(rootPath, reqPath))
    /\ nstate' = "requested"
    /\ UNCHANGED <<rootPath, reqPath, fullPath2>>
    /\ UNCHANGED <<decVars, ordVars, findVars, srvVars>>

\* resolve_parents applied to its own result
resolve_parents_again ==
    /\ nstate \in {"resolved", "requested"}
    /\ fullPath2' = resolve_parents(fullPath1)
    /\ nstate' = "again"
    /\ UNCHANGED <<rootPath, reqPath, fullPath1>>
    /\ UNCHANGED <<decVars, ordVars, findVars, srvVars>>

(***************************************************************************)
(* find_matching_files (lib.rs 12-73) over a directory tree.               *)
(*                                                                         *)
(* The tree is what lies at `root`: a set of entries, each with the        *)
(* directory holding it (the real names leading to it from the root), its  *)
(* real name and what file_type().is_dir() says of it.                     *)
(***************************************************************************)
File(dir, name) == [dir |-> dir, name |-> name, is_dir |-> FALSE]
Dir(dir, name) == [dir |-> dir, name |-> name, is_dir |-> TRUE]

\* test_insensitive_path_searching, lines 218-265: sibling files differing in
\* case, and directories differing in case one level above them
TreeNested ==
    { File(<<>>, <<97>>), File(<<>>, <<65>>), Dir(<<>>, <<100>>),
      Dir(<< <<100>> >>, <<100>>), Dir(<< <<100>> >>, <<68>>), File(<< <<100>> >>, <<97>>),
      File(<< <<100>>, <<100>> >>, <<97>>), File(<< <<100>>, <<100>> >>, <<65>>),
      File(<< <<100>>, <<68>> >>, <<97>>), File(<< <<100>>, <<68>> >>, <<65>>) }

\* a file and a directory differing in case, at the root and below it
TreeMixed ==
    { Dir(<<>>, <<100>>), File(<<>>, <<68>>),
      File(<< <<100>> >>, <<97>>), Dir(<< <<100>> >>, <<65>>),
      File(<< <<100>>, <<65>> >>, <<97>>) }

\* names that are not text: a raw byte 0xFF, a lone continuation byte 0x9F
TreeRaw ==
    { File(<<>>, <<97>>), File(<<>>, <<255>>), Dir(<<>>, <<100>>),
      File(<< <<100>> >>, <<65>>), File(<< <<100>> >>, <<159>>) }

Trees == {TreeNested, TreeMixed, TreeRaw}

MaxDepth == 3        \* components of a target below its base

TargetNames == {<<97>>, <<65>>, <<100>>, <<68>>}
\* "/r", "/R", "." and the empty base
TargetBases == {<<SEP, 114>>, <<SEP, 82>>, <<DOT>>, <<>>}
\* Some("/r"), Some(".") (None is ".", line 13)
FindRoots == {<<SEP, 114>>, <<DOT>>}

Targets ==
    {join(base, join_segments(names)) :
        base \in TargetBases, names \in SeqsUpTo(TargetNames, MaxDepth)}

NoResult == [tag |-> "-", files |-> <<>>]
Ok(files) == [tag |-> "Ok", files |-> files]
Err(kind) == [tag |-> kind, files |-> <<>>]

\* the real names a relative path is made of
names_of(p) == [i \in 1..Len(components(p)) |-> components(p)[i].s]
entries_of(t, dir) == {e \in t : e.dir = dir}

\* mutant: the prefix is compared without regard to case
strip_prefix_ignoring_case(p, base) ==
    LET cs == components(p)
        bs == components(base)
    IN  IF /\ Len(bs) <= Len(cs)
           /\ \A i \in 1..Len(bs) :
                \/ cs[i] = bs[i]
                \/ /\ cs[i].k = "Normal" /\ bs[i].k = "Normal"
                   /\ compare_osstr_case_insensitive(cs[i].s, bs[i].s) = "Equal"
        THEN collect(SubSeq(cs, Len(bs) + 1, Len(cs)))
        ELSE "StripPrefixError"

\* Path::strip_prefix: the path after `base`, or StripPrefixError
strip_prefix(p, base) ==
    IF starts_with(p, base)
    THEN collect(SubSeq(components(p), Len(components(base)) + 1, Len(components(p))))
    ELSE "StripPrefixError"

FindIdle ==
    /\ tree = {} /\ root = <<>> /\ target = <<>>
    /\ queue = <<>> /\ matchingFiles = <<>>
    /\ prefix = <<>> /\ remaining = <<>> /\ headPath = <<>> /\ fullPath = <<>>
    /\ pending = {} /\ reads = 0 /\ failed = FALSE
    /\ result = NoResult /\ fstate = "idle"

FindInit ==
    /\ tree \in Trees /\ root \in FindRoots /\ target \in Targets
    /\ queue = <<>> /\ matchingFiles = <<>>
    /\ prefix = <<>> /\ remaining = <<>> /\ headPath = <<>> /\ fullPath = <<>>
    /\ pending = {} /\ reads = 0 /\ failed = FALSE
    /\ result = NoResult /\ fstate = "call"

\* lines 13-23
find_begin ==
    /\ fstate = "call"
    /\ LET rest == IF path_eq(root, <<DOT>>) THEN target ELSE strip_prefix(target, root)
       IN  IF rest = "StripPrefixError"
           THEN /\ result' = Err("NotUnderRoot")
                /\ fstate' = "done"
                /\ UNCHANGED queue
           ELSE /\ queue' = <<[prefix |-> <<>>, remaining |-> rest]>>
                /\ fstate' = "loop"
                /\ UNCHANGED result
    /\ UNCHANGED <<tree, root, target, matchingFiles, prefix, remaining, headPath,
                   fullPath, pending, reads, failed>>
    /\ UNCHANGED <<decVars, ordVars, normVars, srvVars>>

\* lines 25-43: pop_front, split the head off, build fullPath
find_dequeue ==
    /\ fstate = "loop"
    /\ queue # <<>>
    /\ LET item == Head(queue)
           cs == components(item.remaining)
       IN  IF cs = <<>> \/ cs[1].k # "Normal"
           THEN /\ result' = Err("BadHead")
                /\ fstate' = "done"
                /\ queue' = Tail(queue)
                /\ UNCHANGED <<prefix, remaining, headPath, fullPath>>
           ELSE /\ headPath' = cs[1].s
                /\ remaining' = collect(Tail(cs))
                /\ prefix' = item.prefix
                /\ fullPath' = push(push(<<>>, root), item.prefix)
                /\ queue' = Tail(queue)
                /\ fstate' = "listing"
                /\ UNCHANGED result
    /\ UNCHANGED <<tree, root, target, matchingFiles, pending, reads, failed>>
    /\ UNCHANGED <<decVars, ordVars, normVars, srvVars>>

\* line 71: the queue has drained
find_return ==
    /\ fstate = "loop"
    /\ queue = <<>>
    /\ result' = Ok(matchingFiles)
    /\ fstate' = "done"
    /\ UNCHANGED <<tree, root, target, queue, matchingFiles, prefix, remaining,
                   headPath, fullPath, pending, reads, failed>>
    /\ UNCHANGED <<decVars, ordVars, normVars, srvVars>>

\* lines 45 / 56: read_dir(&fullPath) succeeds on a directory
read_dir_ok ==
    /\ fstate = "listing"
    /\ \/ prefix = <<>>
       \/ \E e \in tree : e.is_dir /\ Append(e.dir, e.name) = names_of(prefix)
    /\ pending' = entries_of(tree, names_of(prefix))
    /\ reads' = reads + 1
    /\ fstate' = "iterating"
    /\ UNCHANGED <<tree, root, target, queue, matchingFiles, prefix, remaining,
                   headPath, fullPath, failed, result>>
    /\ UNCHANGED <<decVars, ordVars, normVars, srvVars>>

\* lines 45 / 56: read_dir(&fullPath)? fails (not a directory, permission
\* denied, vanished, ...)
read_dir_err ==
    /\ fstate = "listing"
    /\ reads' = reads + 1
    /\ failed' = TRUE
    /\ result' = Err("Io")
    /\ fstate' = "done"
    /\ UNCHANGED <<tree, root, target, queue, matchingFiles, prefix, remaining,
                   headPath, fullPath, pending>>
    /\ UNCHANGED <<decVars, ordVars, normVars, srvVars>>

\* mutant: a failed entry is skipped and the loop goes on
entry_err_skipped ==
    /\ fstate = "iterating"
    /\ pending # {}
    /\ reads' = reads + 1
    /\ failed' = TRUE
    /\ UNCHANGED <<tree, root, target, queue, matchingFiles, prefix, remaining,
                   headPath, fullPath, pending, result, fstate>>
    /\ UNCHANGED <<decVars, ordVars, normVars, srvVars>>

\* lines 46 / 57: `entry?` fails
entry_err ==
    /\ fstate = "iterating"
    /\ pending # {}
    /\ reads' = reads + 1
    /\ failed' = TRUE
    /\ result' = Err("Io")
    /\ fstate' = "done"
    /\ UNCHANGED <<tree, root, target, queue, matchingFiles, prefix, remaining,
                   headPath, fullPath, pending>>
    /\ UNCHANGED <<decVars, ordVars, normVars, srvVars>>

\* line 58: `entry.file_type()?` fails for an entry (head component is a
\* directory)
file_type_err ==
    /\ fstate = "iterating"
    /\ components(remaining) # <<>>
    /\ \E e \in pending : pending' = pending \ {e}
    /\ reads' = reads + 1
    /\ failed' = TRUE
    /\ result' = Err("Io")
    /\ fstate' = "done"
    /\ UNCHANGED <<tree, root, target, queue, matchingFiles, prefix, remaining,
                   headPath, fullPath>>
    /\ UNCHANGED <<decVars, ordVars, normVars, srvVars>>

\* line 48: the comparison made for an entry when the head is the filename
leaf_order(e, head) == compare_osstr_case_insensitive(e.name, head)

\* lines 58-61: the comparison made for an entry when the head is a
\* directory; entries that are not directories are skipped uncompared
dir_order(e, head) ==
    IF ~e.is_dir THEN "Skip" ELSE compare_osstr_case_insensitive(e.name, head)

\* lines 45-53: one entry, the head component being the filename
leaf_entry ==
    /\ fstate = "iterating"
    /\ components(remaining) = <<>>
    /\ \E e \in pending :
        LET order == leaf_order(e, headPath)
        IN  /\ pending' = pending \ {e}
            /\ reads' = reads + 1
            /\ IF order = "Panic"
               THEN /\ result' = [tag |-> "Panic", files |-> <<>>]
                    /\ fstate' = "done"
                    /\ UNCHANGED matchingFiles
               ELSE /\ matchingFiles' =
                        IF order = "Equal"
                        THEN Append(matchingFiles, push(fullPath, e.name))
                        ELSE matchingFiles
                    /\ UNCHANGED <<result, fstate>>
    /\ UNCHANGED <<tree, root, target, queue, prefix, remaining, headPath,
                   fullPath, failed>>
    /\ UNCHANGED <<decVars, ordVars, normVars, srvVars>>

\* lines 56-67: one entry, the head component being a directory
dir_entry ==
    /\ fstate = "iterating"
    /\ components(remaining) # <<>>
    /\ \E e \in pending :
        LET order == dir_order(e, headPath)
        IN  /\ pending' = pending \ {e}
            /\ reads' = reads + 1
            /\ IF order = "Panic"
               THEN /\ result' = [tag |-> "Panic", files |-> <<>>]
                    /\ fstate' = "done"
                    /\ UNCHANGED queue
               ELSE /\ queue' =
                        IF order = "Equal"
                        THEN Append(queue, [prefix |-> push(push(<<>>, prefix), e.name),
                                            remaining |-> remaining])
                        ELSE queue
                    /\ UNCHANGED <<result, fstate>>
    /\ UNCHANGED <<tree, root, target, matchingFiles, prefix, remaining, headPath,
                   fullPath, failed>>
    /\ UNCHANGED <<decVars, ordVars, normVars, srvVars>>

\* the directory iterator is exhausted: back to the head of the while loop
iter_end ==
    /\ fstate = "iterating"
    /\ pending = {}
    /\ fstate' = "loop"
    /\ UNCHANGED <<tree, root, target, queue, matchingFiles, prefix, remaining,
                   headPath, fullPath, pending, reads, failed, result>>
    /\ UNCHANGED <<decVars, ordVars, normVars, srvVars>>

(***************************************************************************)
(* handle_request (main.rs 186-239) and resolve_path (main.rs 241-252):    *)
(* one request against the tree at config.rootPath.                        *)
(***************************************************************************)
MaxUrlSegs == 3      \* '/'-separated segments of a request path

\* "a", "D", ".." and "."
ServeSegments == {<<97>>, <<68>>, <<DOT, DOT>>, <<DOT>>}
\* what strip_prefix(&config.urlPrefix) leaves of the URL path (line 189)
ServeRequests == {join_segments(segs) : segs \in SeqsUpTo(ServeSegments, MaxUrlSegs)}
\* --root-path: "/r", "." (the default, line 43) and "/"
ServeRoots == {<<SEP, 114>>, <<DOT>>, <<SEP>>}
\* neither flag, --sendfile, --nginx (lines 201, 213, 225)
Deliveries == {"body", "X-Sendfile", "X-Accel-Redirect"}
\* --nginx "/n/"
nginxUrl == <<SEP, 110, SEP>>
\* the working directory canonicalize resolves a relative path against
Cwd == <<SEP, 119>>

NoResponse == [status |-> "-", via |-> "-", file |-> <<>>, sent |-> <<>>]

\* lines 254-261
status_response(code) == [status |-> code, via |-> "-", file |-> <<>>, sent |-> <<>>]

\* Path::canonicalize of an existing path in a tree without symbolic links:
\* absolute, without "." components
canonicalize(p) ==
    LET cs == components(push(Cwd, p))
    IN  collect(SelectSeq(cs, LAMBDA c : c # CurDir))

\* mutant: the last match is taken instead of the first
resolve_path_last_match(res) ==
    IF res.tag # "Ok" THEN [ok |-> FALSE, file |-> <<>>]
    ELSE IF res.files = <<>> THEN [ok |-> FALSE, file |-> <<>>]
    ELSE [ok |-> TRUE, file |-> Last(res.files)]

\* lines 243-251: `.await??` turns a panic of the blocking task (JoinError)
\* and an error of find_matching_files into Err; an empty Vec is "not found"
resolve_path(res) ==
    IF res.tag # "Ok" THEN [ok |-> FALSE, file |-> <<>>]
    ELSE IF res.files = <<>> THEN [ok |-> FALSE, file |-> <<>>]
    ELSE [ok |-> TRUE, file |-> res.files[1]]

\* lines 201-236: what is handed over for `file` in each delivery mode
deliver(mode, file) ==
    CASE mode = "X-Sendfile" ->
            [status |-> "NO_CONTENT", via |-> mode, file |-> file,
             sent |-> canonicalize(file)]
      [] mode = "X-Accel-Redirect" ->
            IF strip_prefix(file, rootPath) = "StripPrefixError"
            THEN [status |-> "Err", via |-> "-", file |-> <<>>, sent |-> <<>>]
            ELSE [status |-> "NO_CONTENT", via |-> mode, file |-> file,
                  sent |-> nginxUrl \o strip_prefix(file, rootPath)]
      [] OTHER ->
            [status |-> "OK", via |-> "body", file |-> file, sent |-> file]

ServeInit ==
    /\ tree \in Trees /\ root = <<>> /\ target = <<>>
    /\ queue = <<>> /\ matchingFiles = <<>>
    /\ prefix = <<>> /\ remaining = <<>> /\ headPath = <<>> /\ fullPath = <<>>
    /\ pending = {} /\ reads = 0 /\ failed = FALSE
    /\ result = NoResult /\ fstate = "idle"
    /\ rootPath \in ServeRoots /\ reqPath \in ServeRequests
    /\ fullPath1 = <<>> /\ fullPath2 = <<>> /\ nstate = "idle"
    /\ delivery \in Deliveries /\ response = NoResponse /\ hstate = "request"

SrvIdle == delivery = "-" /\ response = NoResponse /\ hstate = "idle"

\* lines 189-191 and 244: fullPath is built and handed to
\* find_matching_files(Some(&config.rootPath))
handle_request_resolve ==
    /\ hstate = "request"
    /\ fullPath1' = resolve_parents(join(rootPath, reqPath))
    /\ target' = fullPath1'
    /\ root' = rootPath
    /\ fstate' = "call"
    /\ hstate' = "resolving"
    /\ UNCHANGED <<rootPath, reqPath, fullPath2, nstate>>
    /\ UNCHANGED <<tree, queue, matchingFiles, prefix, remaining, headPath,
                   fullPath, pending, reads, failed, result>>
    /\ UNCHANGED <<delivery, response>>
    /\ UNCHANGED <<decVars, ordVars>>

\* lines 192-238: the response to what resolve_path returned; canonicalize,
\* File::open, metadata and the header builders can fail (`?`), and then
\* handle_request returns Err and nothing is delivered
handle_request_respond ==
    /\ hstate = "resolving"
    /\ fstate = "done"
    /\ LET file == resolve_path(result)
       IN  IF ~file.ok
           THEN response' = status_response("NOT_FOUND")
           ELSE IF ~starts_with(file.file, rootPath)
           THEN response' = status_response("FORBIDDEN")
           ELSE \E io_ok \in BOOLEAN :
                    response' = IF io_ok THEN deliver(delivery, file.file)
                                ELSE status_response("Err")
    /\ hstate' = "responded"
    /\ UNCHANGED delivery
    /\ UNCHANGED <<decVars, ordVars, normVars, findVars>>

(***************************************************************************)
(* Specifications.                                                         *)
(***************************************************************************)
Init == FindInit /\ DecIdle /\ OrdIdle /\ NormIdle /\ SrvIdle

Next ==
    \/ find_begin
    \/ find_dequeue
    \/ find_return
    \/ read_dir_ok
    \/ read_dir_err
    \/ entry_err
    \/ file_type_err
    \/ leaf_entry
    \/ dir_entry
    \/ iter_end

Spec == Init /\ [][Next]_vars

\* the invocation runs on: a step that can be taken is taken
SpecFair == Init /\ [][Next]_vars /\ WF_vars(Next)

InitServe == ServeInit /\ DecIdle /\ OrdIdle

NextServe ==
    \/ handle_request_resolve
    \/ find_begin
    \/ find_dequeue
    \/ find_return
    \/ read_dir_ok
    \/ read_dir_err
    \/ entry_err
    \/ file_type_err
    \/ leaf_entry
    \/ dir_entry
    \/ iter_end
    \/ handle_request_respond

SpecServe == InitServe /\ [][NextServe]_vars

InitDecode == DecInit /\ OrdIdle /\ NormIdle /\ FindIdle /\ SrvIdle

NextDecode ==
    \/ osstr_chars_next
    \/ osstr_chars_none

SpecDecode == InitDecode /\ [][NextDecode]_vars

InitOrder == OrdInit /\ DecIdle /\ NormIdle /\ FindIdle /\ SrvIdle

NextOrder ==
    \/ cmp_call
    \/ hash_call
    \/ case_variants_call

SpecOrder == InitOrder /\ [][NextOrder]_vars

InitNormalize == NormInit /\ DecIdle /\ OrdIdle /\ FindIdle /\ SrvIdle

NextNormalize ==
    \/ resolve_parents_call
    \/ handle_request_target
    \/ resolve_parents_again

SpecNormalize == InitNormalize /\ [][NextNormalize]_vars

(***************************************************************************)
(* Claims on the decomposer (SpecDecode).                                  *)
(***************************************************************************)
RECURSIVE Covers(_, _)
\* the emitted units tile the first n bytes: each starts where the one
\* before it ended and consumes at least one byte
Covers(us, n) ==
    IF us = <<>> THEN n = 0
    ELSE /\ Last(us).len >= 1
         /\ Last(us).at + Last(us).len = n
         /\ Covers(Front(us), Last(us).at)

\* C2: osstr_chars is total on arbitrary byte strings: no call of the
\* iterator panics (reaches unreachable!()), the index never passes the
\* end, the units emitted so far cover exactly the bytes before the index,
\* each once and in order, and an exhausted iterator has covered every byte.
C2_OsstrCharsTotal ==
    /\ dstate # "panicked"
    /\ index <= Len(str)
    /\ Covers(units, index)
    /\ (dstate = "exhausted" => index = Len(str))

\* the length of the run a byte leads in UTF-8 (0xxxxxxx, 110xxxxx,
\* 1110xxxx, 11110xxx); 0 for a byte that leads none
utf8_len(b) ==
    IF b < 128 THEN 1
    ELSE IF b \div 32 = 6 THEN 2
    ELSE IF b \div 16 = 14 THEN 3
    ELSE IF b \div 8 = 30 THEN 4
    ELSE 0

\* the unit owed at byte offset i of s: the scalar value of the well-formed
\* run that starts there, consuming the run, or else the byte itself
expected_unit(s, i) ==
    LET n == utf8_len(s[i + 1])
        run == SubSeq(s, i + 1, i + n)
    IN  IF n > 0 /\ i + n <= Len(s) /\ from_utf8(run) # Utf8Error
        THEN [unit |-> Char(from_utf8(run)[1]), at |-> i, len |-> n]
        ELSE [unit |-> Byte(s[i + 1]), at |-> i, len |-> 1]

\* C13: at each position the iterator emits one unit: the scalar value of
\* the well-formed 1- to 4-byte character that starts there, consuming its
\* whole run, or, when the byte starts no valid run, that single byte as a
\* raw unit at its position, consuming exactly one byte.
C13_DecompositionCorrect ==
    [][(dstate = "iterating" /\ index < Len(str)) =>
          /\ units' = Append(units, expected_unit(str, index))
          /\ index' = index + expected_unit(str, index).len]_vars

\* what does hold: a unit that is emitted for a 1- or 2-byte run, or for a
\* byte 0xF8..0xFF, is the one owed
UnitsCorrectUpToTwoBytes ==
    \A k \in 1..Len(units) :
        LET b == str[units[k].at + 1]
        IN  (utf8_len(b) \in {1, 2} \/ b >= 248) =>
                units[k] = expected_unit(str, units[k].at)

(***************************************************************************)
(* Claims on InsensitivePath (SpecOrder).                                  *)
(***************************************************************************)
\* C1: hash/equality consistency: whenever a.cmp(&b) is Equal, the hashes
\* of a and b are equal.
C1_HashEqConsistent ==
    (ostate = "hashed" /\ ord.ab = "Equal") => hsh.a = hsh.b

\* C6: a string of text compares Equal to its upper-cased and to its
\* lower-cased form.
C6_CaseConversionInvariant ==
    ostate = "folded" => (fold.up = "Equal" /\ fold.low = "Equal")

Reverse(o) ==
    CASE o = "Less" -> "Greater" [] o = "Greater" -> "Less" [] OTHER -> o

\* C7: cmp is a total order: every comparison yields exactly one of Less,
\* Equal, Greater, cmp(a, b) is the reverse of cmp(b, a), and a < b and
\* b < c imply a < c.
C7_CmpTotalOrder ==
    ostate = "compared" =>
        /\ ord.ab \in {"Less", "Equal", "Greater"}
        /\ ord.ba = Reverse(ord.ab)
        /\ ((ord.ab = "Less" /\ ord.bc = "Less") => ord.ac = "Less")

(***************************************************************************)
(* Claims on resolve_parents (SpecNormalize).                              *)
(***************************************************************************)
HasParentDir(p) == \E i \in 1..Len(components(p)) : components(p)[i] = ParentDir

\* C3: resolve_parents never climbs above a leading root or current-directory
\* marker: a surplus ".." is a no-op, so the result holds no parent-directory
\* component, and "/a/../.." gives "/", "./a/../.." gives ".", "a/../.." "".
C3_NeverClimbsAboveMarker ==
    nstate = "resolved" =>
        /\ ~HasParentDir(fullPath1)
        /\ (reqPath = <<SEP, 97, SEP, DOT, DOT, SEP, DOT, DOT>> => path_eq(fullPath1, <<SEP>>))
        /\ (reqPath = <<DOT, SEP, 97, SEP, DOT, DOT, SEP, DOT, DOT>> => path_eq(fullPath1, <<DOT>>))
        /\ (reqPath = <<97, SEP, DOT, DOT, SEP, DOT, DOT>> => path_eq(fullPath1, <<>>))

\* C8: resolve_parents is idempotent: resolve_parents(resolve_parents(p))
\* equals resolve_parents(p), as paths and byte for byte.
C8_ResolveParentsIdempotent ==
    nstate = "again" => (path_eq(fullPath2, fullPath1) /\ fullPath2 = fullPath1)

\* a renormalised result that came from collapsing ".." and still holds one
C8_Witness ==
    /\ nstate = "again"
    /\ HasParentDir(reqPath)
    /\ HasParentDir(fullPath1)
    /\ Len(components(fullPath1)) >= 3

\* C10 (as claimed): for every root R and request q, the target
\* resolve_parents(R.join(q)) still has R as a path prefix.
C10_TargetUnderAnyRoot ==
    nstate = "requested" => starts_with(fullPath1, rootPath)

IsBareMarker(p) == path_eq(p, <<SEP>>) \/ path_eq(p, <<DOT>>)

\* C10 (amended): when the root is exactly "/" or ".", the target
\* resolve_parents(R.join(q)) has R as a path prefix, for every request q.
C10_TargetUnderBareMarkerRoot ==
    (nstate = "requested" /\ IsBareMarker(rootPath)) => starts_with(fullPath1, rootPath)

\* a request with surplus ".." under the root "."
C10_Witness ==
    /\ nstate = "requested"
    /\ rootPath = <<DOT>>
    /\ reqPath = <<97, SEP, DOT, DOT, SEP, DOT, DOT>>
    /\ starts_with(fullPath1, rootPath)

(***************************************************************************)
(* Claims on find_matching_files (Spec).                                   *)
(***************************************************************************)
\* the components of the target below the root
below_root ==
    IF path_eq(root, <<DOT>>) THEN components(target)
    ELSE components(strip_prefix(target, root))

is_dir_node(ns) == \E e \in tree : e.is_dir /\ Append(e.dir, e.name) = ns

\* the chains e1..en of real names: ei is an entry of root/e1/../e(i-1),
\* equal to the i-th target component but for case, e1..e(n-1) directories
matching_chains ==
    {ns \in {Append(e.dir, e.name) : e \in tree} :
        /\ Len(ns) = Len(below_root)
        /\ \A i \in 1..Len(ns) :
            compare_osstr_case_insensitive(ns[i], below_root[i].s) = "Equal"
        /\ \A i \in 1..(Len(ns) - 1) : is_dir_node(SubSeq(ns, 1, i))}

concrete_path(ns) == components(root) \o [i \in 1..Len(ns) |-> Normal(ns[i])]

returned_exactly_the_matches ==
    /\ {components(result.files[i]) : i \in 1..Len(result.files)}
         = {concrete_path(ns) : ns \in matching_chains}
    /\ \A i, j \in 1..Len(result.files) :
         path_eq(result.files[i], result.files[j]) => i = j

\* C4: find_matching_files returns exactly the set of concrete paths
\* root/e1/.../en of the matching chains, each once: an invocation that does
\* not end with an error (NotUnderRoot, a failed read, a head that is not a
\* name) ends returning that set.
C4_ExactMatchSet ==
    fstate = "done" =>
        \/ result.tag \in {"NotUnderRoot", "Io", "BadHead"}
        \/ (result.tag = "Ok" /\ returned_exactly_the_matches)

\* what does hold: a match set that is returned is the exact one
ExactMatchSetWhenReturned ==
    result.tag = "Ok" => returned_exactly_the_matches

C9_IoErrorAborts ==
    /\ [](failed => (fstate = "done" /\ result.tag = "Io" /\ result.files = <<>>))
    /\ [][failed => (reads' = reads /\ result' = result)]_vars

\* a read fails after matches were accumulated
C9_Witness ==
    /\ failed
    /\ result.tag = "Io"
    /\ matchingFiles # <<>>
    /\ pending # {}

\* C12: the root is stripped from the target for every root, and the only
\* failures are NotUnderRoot and I/O errors: an invocation whose target has
\* the root as a literal prefix ("." with "./a", and a target equal to the
\* root, included) and whose directory reads all succeed returns a match
\* set, possibly empty.
C12_OnlyNotUnderRootOrIo ==
    (fstate = "done" /\ starts_with(target, root) /\ ~failed) =>
        result.tag = "Ok"

\* the errors other than NotUnderRoot and I/O come from the head alone
\* (line 31) when no name panics the comparison
BadHeadOnlyWhenHeadIsNoName ==
    result.tag = "BadHead" =>
        \/ path_eq(root, <<DOT>>) /\ components(target) # <<>>
              /\ components(target)[1].k # "Normal"
        \/ below_root = <<>>

\* every queue item is as many names below the root as its remaining
\* suffix is shorter than the path searched: an item pushed for an entry
\* has a suffix one component shorter than that of the item listed
suffix_shrinks ==
    \A i \in 1..Len(queue) :
        Len(components(queue[i].prefix)) + Len(components(queue[i].remaining))
            = Len(below_root)

\* a directory is listed only for an item just dequeued, once
one_listing_per_item ==
    /\ (fstate' = "listing" /\ fstate # "listing") =>
            (fstate = "loop" /\ queue # <<>> /\ queue' = Tail(queue))
    /\ (fstate' = "iterating" /\ fstate # "iterating") => fstate = "listing"
    /\ fstate = "listing" => fstate' # "listing"

returned == fstate = "done" /\ result.tag \in {"Ok", "NotUnderRoot", "Io", "BadHead"}

\* C14: every invocation over a finite tree terminates: each item pushed
\* has a remaining suffix one component shorter than the item it was
\* derived from, at most one directory is listed per dequeued item, and the
\* call eventually returns a match set or an error.
C14_TerminatesReturning ==
    /\ <>returned
    /\ []suffix_shrinks
    /\ [][one_listing_per_item]_vars

\* what does hold: every invocation ends (returning or panicking), the
\* suffixes shrink and a directory is listed once per dequeued item
EndsDecreasing ==
    /\ <>(fstate = "done")
    /\ []suffix_shrinks
    /\ [][one_listing_per_item]_vars

(***************************************************************************)
(* Claims on handle_request (SpecServe).                                   *)
(***************************************************************************)
delivered == response.via # "-"

\* the path is that of an entry of the tree at config.rootPath
names_entry_under_root(file) ==
    \E e \in tree :
        components(file) = components(rootPath) \o
            [i \in 1..(Len(e.dir) + 1) |-> Normal(Append(e.dir, e.name)[i])]

\* C11: a file is delivered (body, X-Sendfile, X-Accel-Redirect) only when
\* resolution returned a non-empty match set; the delivered path is the
\* first match, lies under config.rootPath and names an entry of the tree
\* there; an empty match set is answered NOT_FOUND and a resolved path
\* outside the root FORBIDDEN.
C11_OutcomeMapping ==
    hstate = "responded" =>
        /\ delivered =>
            /\ result.tag = "Ok"
            /\ result.files # <<>>
            /\ response.file = result.files[1]
            /\ starts_with(response.file, rootPath)
            /\ ~HasParentDir(response.file)
            /\ names_entry_under_root(response.file)
        /\ (result.tag = "Ok" /\ result.files = <<>>) =>
            response.status = "NOT_FOUND"
        /\ (result.tag = "Ok" /\ result.files # <<>>
                /\ ~starts_with(result.files[1], rootPath)) =>
            response.status = "FORBIDDEN"

\* a request with ".." is answered with the first of several matches
C11_Witness ==
    /\ hstate = "responded"
    /\ delivered
    /\ HasParentDir(reqPath)
    /\ Len(result.files) > 1
    /\ result.files[1] # Last(result.files)

\* an empty match set answered NOT_FOUND
C11_WitnessNotFound ==
    /\ hstate = "responded"
    /\ result.tag = "Ok" /\ result.files = <<>>
    /\ response.status = "NOT_FOUND"

====
